---- MODULE Spec2Model ----
(***************************************************************************)
(* Model of pylustrator's property-linking widgets (QLinkableWidgets.py),  *)
(* the colour catalogue and swap engine (QtGui.py) and the draggable       *)
(* colour buttons (QtShortCuts.py).                                        *)
(***************************************************************************)
EXTENDS Integers, Sequences, FiniteSets, TLC

(***************************************************************************)
(* Bounds of the exploration.                                              *)
(***************************************************************************)
\* longest selection (figure.selection.targets) explored
MaxSel == 2
\* property values are 0..MaxValue
MaxValue == 2
\* number of edits the change tracker holds before the widget is left alone
MaxEdits == 1

Values == 0..MaxValue

None == "None"

(***************************************************************************)
(* The figure the widgets act on: two Axes, the labels of their x and y    *)
(* axes (Text), and one artist of another class.                           *)
(***************************************************************************)
Elements == {"A1", "A2", "A1x", "A1y", "A2x", "A2y", "L"}

Kinds == {"Axes", "Text", "Other"}

\* isinstance(e, Axes) / isinstance(e, Text)
Kind(e) ==
    IF e \in {"A1", "A2"} THEN "Axes"
    ELSE IF e = "L" THEN "Other"
    ELSE "Text"

\* elm.get_xaxis().get_label() and elm.get_yaxis().get_label() of an Axes
XLabel(a) == IF a = "A1" THEN "A1x" ELSE "A2x"

YLabel(a) == IF a = "A1" THEN "A1y" ELSE "A2y"

\* the property values the artists have before any edit
InitProp == [e \in Elements |->
    CASE e = "A1"  -> 0
      [] e = "A2"  -> 1
      [] e = "A1x" -> 0
      [] e = "A1y" -> 1
      [] e = "A2x" -> 1
      [] e = "A2y" -> 0
      [] OTHER     -> MaxValue]

WidgetClasses == {"DimensionsWidget", "TextWidget", "NumberWidget",
                  "ComboWidget", "CheckWidget", "QColorWidget"}

\* sequences of distinct elements of length at most n
RECURSIVE SeqsUpTo(_)
SeqsUpTo(n) ==
    IF n = 0 THEN {<<>>}
    ELSE LET shorter == SeqsUpTo(n - 1)
         IN  shorter \cup
             {Append(s, e) : s \in {t \in shorter : Len(t) = n - 1},
                             e \in Elements}

Range(s) == {s[i] : i \in 1..Len(s)}

Distinct(s) == Cardinality(Range(s)) = Len(s)

Selections == {s \in SeqsUpTo(MaxSel) : Distinct(s)}

VARIABLES
    hasGet,     \* per class: the artist has get_<property_name>
    hasSet,     \* per class: the artist has set_<property_name>
    direct,     \* Linkable.direct
    wclass,     \* the class of the linked widget
    cond,       \* the condition given to link ("none": no condition)
    targets,    \* main_figure(element).selection.targets
    prop,       \* the linked property of every artist
    element,    \* Linkable.element
    wvalue,     \* what the widget's get() returns
    shown,      \* widget visibility (show / hide)
    enabled,    \* widget enabled state
    edits,      \* change_tracker edits recorded by updateLink
    log,        \* tracker, canvas and signal calls of the last handler
    raised,     \* exception that left the last handler ("none" if it returned)
    last,       \* the last handler that ran
    run,        \* how far the run updateLink, undo, redo of one edit has got
    artist_colors,      \* the colour attributes of the figure's artists
    cmap_colors,        \* the colour lists of the colormaps with get_color
    no_save,            \* the artists whose _no_save is true
    empty_text,         \* the Text artists whose text is ""
    color_artists,      \* figure.color_artists
    color_buttons_list, \* ColorChooserWidget.color_buttons_list
    swap_counter,       \* ColorChooserWidget.swap_counter
    colors_text,        \* the lines of colors_text_widget
    clog,       \* what the last chooser handler called
    craised,    \* exception raised in the last chooser handler or one of its slots
    clast,      \* the last chooser handler that ran
    csteps      \* how many chooser handlers have run

linkVars == <<hasGet, hasSet, direct, wclass, cond, targets, prop, element,
              wvalue, shown, enabled, edits, log, raised, last, run>>

colorVars == <<artist_colors, cmap_colors, no_save, empty_text, color_artists,
               color_buttons_list, swap_counter, colors_text, clog, craised,
               clast, csteps>>

vars == <<linkVars, colorVars>>

(***************************************************************************)
(* Linkable.link: the accessors it installs                                *)
(***************************************************************************)

\* the label_object search of set and getAll: "x", "y", "none", or "error"
\* when a selected target has no get_xaxis (AttributeError)
RECURSIVE FindLabel(_, _, _)
FindLabel(el, tg, i) ==
    IF i > Len(tg) THEN "none"
    ELSE IF Kind(tg[i]) # "Axes" THEN "error"
    ELSE IF XLabel(tg[i]) = el THEN "x"
    ELSE IF YLabel(tg[i]) = el THEN "y"
    ELSE FindLabel(el, tg, i + 1)

LabelObject(el, tg) ==
    IF Kind(el) = "Text" /\ Len(tg) > 0 /\ Kind(tg[1]) = "Axes"
    THEN FindLabel(el, tg, 1)
    ELSE "none"

\* the object a selected target stands for: itself, or its axis label
LabelOf(lab, t) ==
    IF lab = "x" THEN XLabel(t) ELSE IF lab = "y" THEN YLabel(t) ELSE t

\* the loop over selection.targets in set
RECURSIVE SetLoop(_, _, _, _, _, _, _)
SetLoop(lab, el, tg, v, i, p, els) ==
    IF i > Len(tg) THEN [raised |-> "none", prop |-> p, elements |-> els]
    ELSE IF lab # "none" /\ Kind(tg[i]) # "Axes"
    THEN [raised |-> "AttributeError", prop |-> p, elements |-> els]
    ELSE LET elm == LabelOf(lab, tg[i])
         IN  IF elm = el THEN SetLoop(lab, el, tg, v, i + 1, p, els)
             ELSE IF hasSet[Kind(elm)]
             THEN SetLoop(lab, el, tg, v, i + 1,
                          [p EXCEPT ![elm] = v], Append(els, elm))
             ELSE SetLoop(lab, el, tg, v, i + 1, p, els)

\* setLinkedProperty of a non-direct link: set(v)
SetLinkedPropertyElementOnly(p, el, tg, v) ==
    IF ~hasSet[Kind(el)]
    THEN [raised |-> "AttributeError", prop |-> p, elements |-> <<>>]
    ELSE [raised |-> "none", prop |-> [p EXCEPT ![el] = v], elements |-> <<el>>]

SetLinkedPropertyTargetsFirst(p, el, tg, v) ==
    LET lab == LabelObject(el, tg)
    IN  IF lab = "error"
        THEN [raised |-> "AttributeError", prop |-> p, elements |-> <<>>]
        ELSE IF ~hasSet[Kind(el)]
        THEN [raised |-> "AttributeError",
              prop |-> SetLoop(lab, el, tg, v, 1, p, <<>>).prop,
              elements |-> <<>>]
        ELSE SetLoop(lab, el, tg, v, 1, [p EXCEPT ![el] = v], <<el>>)

SetLinkedProperty(p, el, tg, v) ==
    LET lab == LabelObject(el, tg)
    IN  IF lab = "error" \/ ~hasSet[Kind(el)]
        THEN [raised |-> "AttributeError", prop |-> p, elements |-> <<>>]
        ELSE SetLoop(lab, el, tg, v, 1, [p EXCEPT ![el] = v], <<el>>)

\* the loop over selection.targets in getAll
RECURSIVE GetLoop(_, _, _, _, _, _)
GetLoop(lab, el, tg, i, p, vals) ==
    IF i > Len(tg) THEN [raised |-> "none", values |-> vals]
    ELSE IF lab # "none" /\ Kind(tg[i]) # "Axes"
    THEN [raised |-> "AttributeError", values |-> vals]
    ELSE LET elm == LabelOf(lab, tg[i])
         IN  IF elm # el /\ hasGet[Kind(elm)]
             THEN GetLoop(lab, el, tg, i + 1, p,
                          Append(vals, [elem |-> elm, value |-> p[elm]]))
             ELSE GetLoop(lab, el, tg, i + 1, p, vals)

\* getLinkedPropertyAll of a non-direct link: getAll()
GetLinkedPropertyAll(p, el, tg) ==
    LET lab == LabelObject(el, tg)
    IN  IF lab = "error" \/ ~hasGet[Kind(el)]
        THEN [raised |-> "AttributeError", values |-> <<>>]
        ELSE GetLoop(lab, el, tg, 1, p, <<[elem |-> el, value |-> p[el]]>>)

(***************************************************************************)
(* The widgets' get / set / getSerialized                                  *)
(***************************************************************************)

\* the values a ComboWidget was constructed with
ComboValues == {0, 1}

\* a value mpl.colors.to_hex accepts
IsColor(v) == v # 0

\* the colour QColorWidget.setColor falls back to ("#FF0000FF")
DefaultColor == 1

\* self.noSignal while set() writes into the input
NoSignalDuringSetOff == FALSE

NoSignalDuringSet == TRUE

\* set(value): what the widget holds afterwards, or the exception
WidgetSet(c, v) ==
    CASE c = "ComboWidget" ->
            IF v \in ComboValues THEN [raised |-> "none", value |-> v]
            ELSE [raised |-> "ValueError", value |-> v]
      [] c = "CheckWidget" ->
            [raised |-> "none", value |-> IF v = 0 THEN 0 ELSE 1]
      [] c = "QColorWidget" ->
            [raised |-> "none", value |-> IF IsColor(v) THEN v ELSE DefaultColor]
      [] OTHER -> [raised |-> "none", value |-> v]

\* whether writing new over old into the input makes the widget emit
\* editingFinished (the input's change signal reaching valueChangeEvent,
\* onValueChangedX/Y or onStateChanged)
SetEmits(c, old, new) ==
    CASE c = "QColorWidget" -> FALSE
      [] c = "TextWidget"   ->
            LET last_text == new
            IN  ~NoSignalDuringSet /\ new # old /\ new # last_text
      [] OTHER              -> ~NoSignalDuringSet /\ new # old

\* the values a user can enter
UserValues(c) ==
    CASE c = "ComboWidget" -> ComboValues
      [] c = "CheckWidget" -> {0, 1}
      [] OTHER             -> Values

\* getSerialized()
GetSerialized(c, wv) ==
    [style |-> CASE c \in {"TextWidget", "ComboWidget", "QColorWidget"} -> "quoted"
                 [] c = "DimensionsWidget" -> "joined"
                 [] c = "CheckWidget" -> "bool"
                 [] OTHER -> "str",
     v |-> wv]

\* serializeLinkedProperty(x)
SerializeLinkedProperty(x) ==
    [call |-> IF direct THEN "assign" ELSE "set", arg |-> x]

NoText == [call |-> "none", arg |-> [style |-> "none", v |-> 0]]

Event(name) == [ev |-> name, elem |-> None, text |-> NoText]

\* save_change(element) inside updateLink
SaveChange(elem, c, wv) ==
    IF Kind(elem) = "Text"
    THEN [ev |-> "addNewTextChange", elem |-> elem, text |-> NoText]
    ELSE [ev |-> "addChange", elem |-> elem,
          text |-> SerializeLinkedProperty(GetSerialized(c, wv))]

NoEdit == [undo |-> <<>>, redo |-> <<>>, name |-> "none",
           pre |-> InitProp, post |-> InitProp, sel |-> <<>>, elem |-> None]

\* what updateLink does once the new values are captured: addEdit on the
\* figure's change tracker, fig.canvas.draw(), then the signal
UpdateLinkCallsNoDraw == <<Event("addEdit"), Event("emit")>>

UpdateLinkCalls == <<Event("addEdit"), Event("draw"), Event("emit")>>

\* the edit updateLink hands to addEdit: the undo closure replays the values
\* captured before the setter ran, the redo closure those captured after it
\* (pre, post, sel and elem remember the moment of the edit)
ChangeEditReplaysOld(old, new, p, post, tg, el) ==
    [undo |-> old, redo |-> old, name |-> "Change property",
     pre |-> p, post |-> post, sel |-> tg, elem |-> el]

ChangeEdit(old, new, p, post, tg, el) ==
    [undo |-> old, redo |-> new, name |-> "Change property",
     pre |-> p, post |-> post, sel |-> tg, elem |-> el]

\* updateLink for a widget showing wv and linked to el
UpdateLink(p, el, tg, wv) ==
    LET fail == [raised |-> "AttributeError", prop |-> p, added |-> FALSE,
                 edit |-> NoEdit, log |-> <<>>]
    IN  IF direct \/ el = None THEN fail
        ELSE
        LET old == GetLinkedPropertyAll(p, el, tg)
            s   == SetLinkedProperty(p, el, tg, wv)
            new == GetLinkedPropertyAll(s.prop, el, tg)
        IN  IF old.raised # "none" THEN fail
            ELSE IF s.raised # "none"
            THEN [raised |-> "none", prop |-> s.prop, added |-> FALSE,
                  edit |-> NoEdit, log |-> <<>>]
            ELSE IF new.raised # "none" THEN [fail EXCEPT !.prop = s.prop]
            ELSE [raised |-> "none", prop |-> s.prop, added |-> TRUE,
                  edit |-> ChangeEdit(old.values, new.values, p, s.prop,
                                      tg, el),
                  log |-> UpdateLinkCalls]

\* the loop of the undo and redo closures over the captured values
RECURSIVE Restore(_, _, _, _, _, _)
Restore(vals, i, p, lg, c, wv) ==
    IF i > Len(vals) THEN [raised |-> "none", prop |-> p, log |-> lg]
    ELSE IF ~hasSet[Kind(vals[i].elem)]
    THEN [raised |-> "TypeError", prop |-> p, log |-> lg]
    ELSE Restore(vals, i + 1, [p EXCEPT ![vals[i].elem] = vals[i].value],
                 Append(lg, SaveChange(vals[i].elem, c, wv)), c, wv)

(***************************************************************************)
(* The figure's artists and their colours (QtGui.py)                       *)
(***************************************************************************)

\* figure.get_children() and below, in drawing order
Children(a) ==
    CASE a = "fig"    -> <<"ax", "helper">>
      [] a = "ax"     -> <<"line", "scatter", "title", "tick">>
      [] a = "helper" -> <<"hline">>
      [] a = "tick"   -> <<"ticklabel">>
      [] OTHER        -> <<>>

Artists == {"ax", "helper", "line", "scatter", "title", "tick", "hline",
            "ticklabel"}

\* isinstance(artist, mpl.text.Text)
IsText(a) == a \in {"title", "ticklabel"}

\* isinstance(artist, (mpl.axis.XTick, mpl.axis.YTick))
IsTick(a) == a = "tick"

\* the colour getters addChildren tries, in its order
ColorTypeNames ==
    <<"edgecolor", "facecolor", "color", "markeredgecolor", "markerfacecolor">>

\* the (artist, colour attribute) pairs that exist in the figure
Slots == {<<"ax", "facecolor">>, <<"line", "color">>,
          <<"scatter", "facecolor">>, <<"title", "color">>,
          <<"helper", "facecolor">>, <<"hline", "color">>,
          <<"ticklabel", "color">>}

Black == "#000000"

White == "#ffffff"

ColA == "#aa0000"

ColB == "#00bb00"

ColC == "#0000cc"

\* plt.colormaps(): the names of the registered colormaps
Maps == {"viridis", "plasma"}

\* colormaps that offer get_color / set_color (a list of colours)
ListCmaps == {"cm1"}

\* a colour value as mpl.colors sees it
Plain(h, al) ==
    [kind |-> "plain", hex |-> h, alpha |-> al, cmap |-> None, value |-> 0]

\* a value mpl.colors.to_hex raises ValueError on
Invalid ==
    [kind |-> "invalid", hex |-> "", alpha |-> 1, cmap |-> None, value |-> 0]

\* a colour taken from colormap cm at value v, drawn as hex h
FromCmap(cm, v, h) ==
    [kind |-> "cmap", hex |-> h, alpha |-> 1, cmap |-> cm, value |-> v]

\* plt.get_cmap(name)(v) of a registered colormap
MapHex(name, v) ==
    IF name = "viridis" THEN (IF v = 0 THEN "#440154" ELSE "#fde725")
    ELSE (IF v = 0 THEN "#0d0887" ELSE "#f0f921")

\* what a getter returns: not set, or one colour, or a list / 2-d array
Unset == [set |-> FALSE, list |-> FALSE, colors |-> <<>>]

One(c) == [set |-> TRUE, list |-> FALSE, colors |-> <<c>>]

Many(cs) == [set |-> TRUE, list |-> TRUE, colors |-> cs]

\* color_artists[key].append(entry), keeping the dict's insertion order
AddEntry(cat, key, entry) ==
    IF \E k \in 1..Len(cat) : cat[k].key = key
    THEN [k \in 1..Len(cat) |->
             IF cat[k].key = key
             THEN [cat[k] EXCEPT !.entries = Append(@, entry)]
             ELSE cat[k]]
    ELSE Append(cat, [key |-> key, entries |-> <<entry>>])

\* mpl.colors.to_hex raises ValueError on h (a colormap name is no colour)
NoHex(h) == h \in Maps

\* the catalogue as left behind by a ValueError escaping addChildren
Failed(cat) == \E k \in 1..Len(cat) : cat[k].key = "ValueError"

Fail(cat) == Append(cat, [key |-> "ValueError", entries |-> <<>>])

\* the loop over cmap.get_color() in addChildren
RECURSIVE AddCmapColors(_, _, _, _, _, _)
AddCmapColors(cat, lst, i, name, artist, color) ==
    IF i > Len(lst) THEN cat
    ELSE IF NoHex(lst[i]) THEN Fail(cat)
    ELSE AddCmapColors(
             AddEntry(cat, lst[i],
                      [attr |-> name, artist |-> artist, value |-> color.value,
                       cmap |-> color.cmap, index |-> i]),
             lst, i + 1, name, artist, color)

\* the body of "for color in colors" in addChildren
AddColor(cat, cms, name, artist, color) ==
    IF Failed(cat) THEN cat
    ELSE IF color.kind = "invalid" \/ NoHex(color.hex) THEN cat
    ELSE IF color.hex = Black \/ color.hex = White THEN cat
    ELSE IF color.kind = "cmap"
    THEN IF color.cmap \in ListCmaps
         THEN AddCmapColors(cat, cms[color.cmap], 1, name, artist, color)
         ELSE AddEntry(cat, color.cmap,
                       [attr |-> name, artist |-> artist, value |-> color.value,
                        cmap |-> color.cmap, index |-> color.value])
    ELSE IF color.alpha = 0 THEN cat
    ELSE AddEntry(cat, color.hex,
                  [attr |-> name, artist |-> artist, value |-> 0,
                   cmap |-> None, index |-> 0])

RECURSIVE AddColors(_, _, _, _, _, _)
AddColors(cat, cms, name, artist, cs, j) ==
    IF j > Len(cs) THEN cat
    ELSE AddColors(AddColor(cat, cms, name, artist, cs[j]),
                   cms, name, artist, cs, j + 1)

\* the loop over the colour getters of one artist
RECURSIVE AddColorTypes(_, _, _, _, _)
AddColorTypes(cat, cms, col, artist, n) ==
    IF n > Len(ColorTypeNames) THEN cat
    ELSE LET name == ColorTypeNames[n]
             got  == IF <<artist, name>> \in Slots
                     THEN col[<<artist, name>>] ELSE Unset
         IN  IF ~got.set \/ Len(got.colors) = 0
             THEN AddColorTypes(cat, cms, col, artist, n + 1)
             ELSE AddColorTypes(AddColors(cat, cms, name, artist, got.colors, 1),
                                cms, col, artist, n + 1)

\* addChildren(color_artists, parent), over kids[i..]
RECURSIVE AddChildren(_, _, _, _, _, _, _)
AddChildren(cat, cms, col, nosave, empty, kids, i) ==
    IF i > Len(kids) THEN cat
    ELSE LET artist == kids[i]
         IN  IF IsText(artist) /\ artist \in empty
             THEN AddChildren(cat, cms, col, nosave, empty, kids, i + 1)
             ELSE IF artist \in nosave
             THEN AddChildren(cat, cms, col, nosave, empty, kids, i + 1)
             ELSE LET below == IF ~(IsText(artist) \/ IsTick(artist))
                               THEN AddChildren(cat, cms, col, nosave, empty,
                                                Children(artist), 1)
                               ELSE cat
                  IN  AddChildren(AddColorTypes(below, cms, col, artist, 1),
                                  cms, col, nosave, empty, kids, i + 1)

\* figureListColors(figure): the new figure.color_artists
FigureListColorsOfAll(cms, col, nosave, empty) ==
    AddChildren(<<>>, cms, col, {}, {}, Children("fig"), 1)

FigureListColors(cms, col, nosave, empty) ==
    AddChildren(<<>>, cms, col, nosave, empty, Children("fig"), 1)

Keys(cat) == {cat[k].key : k \in 1..Len(cat)}

EntriesOf(cat, key) ==
    LET k == CHOOSE k \in 1..Len(cat) : cat[k].key = key
    IN  cat[k].entries

\* the text of a change figureSwapColor records
PlainChange(name, new) == [call |-> name, fmt |-> "color", arg |-> new, at |-> 0]

CmapChange(name, cm, v) == [call |-> name, fmt |-> "get_cmap", arg |-> cm, at |-> v]

SetPlainNotCalled(col, e, new) == col

SetPlain(col, e, new) == [col EXCEPT ![<<e.artist, e.attr>>] = One(Plain(new, 1))]

SetFromCmap(col, e, cm, v, h) ==
    [col EXCEPT ![<<e.artist, e.attr>>] = One(FromCmap(cm, v, h))]

\* the loop of figureSwapColor over figure.color_artists[color_base]
RECURSIVE SwapLoop(_, _, _, _, _, _, _)
SwapLoop(es, i, new, col, cms, changed, lg) ==
    IF i > Len(es) THEN [col |-> col, cms |-> cms, log |-> lg]
    ELSE
    LET e == es[i]
        chg(text) == Append(lg, [ev |-> "addChange", artist |-> e.artist,
                                 text |-> text])
    IN  IF e.cmap # None
        THEN LET settable == e.cmap \in ListCmaps
                 cms1 == IF e.cmap \notin changed /\ settable
                         THEN [cms EXCEPT ![e.cmap][e.index] = new]
                         ELSE cms
                 changed1 == changed \cup {e.cmap}
             IN  IF ~settable
                 THEN IF new \in Maps
                      THEN SwapLoop(es, i + 1, new,
                               SetFromCmap(col, e, new, e.value, MapHex(new, e.value)),
                               cms1, changed1, chg(CmapChange(e.attr, new, e.value)))
                      ELSE SwapLoop(es, i + 1, new, SetPlain(col, e, new),
                               cms1, changed1, chg(PlainChange(e.attr, new)))
                 ELSE SwapLoop(es, i + 1, new,
                          SetFromCmap(col, e, e.cmap, e.value, cms1[e.cmap][e.value]),
                          cms1, changed1, chg(CmapChange(e.attr, e.cmap, e.value)))
        ELSE IF new \in Maps
             THEN SwapLoop(es, i + 1, new,
                      SetFromCmap(col, e, new, 0, MapHex(new, 0)),
                      cms, changed, chg(CmapChange(e.attr, new, 0)))
             ELSE SwapLoop(es, i + 1, new, SetPlain(col, e, new),
                      cms, changed, chg(PlainChange(e.attr, new)))

\* figure.color_artists before figureListColors ever ran
NoCatalog == <<[key |-> "unset", entries |-> <<>>]>>

\* swap_counter value at which colorChanged calls updateColors
FullSwap == 2

\* updateColors makes buttons for the first MaxButtons colours
MaxButtons == 20

\* and lists the first MaxTextColors colours in the text widget
MaxTextColors == 10

Min(a, b) == IF a < b THEN a ELSE b

CEvent(name) == [ev |-> name, artist |-> None, text |-> PlainChange("", "")]

SwapEvent(new, base) ==
    [ev |-> "figureSwapColor", artist |-> None, text |-> PlainChange(base, new)]

\* figureSwapColor(figure, new_color, color_base) on the chooser's state st
FigureSwapColor(st, new, base) ==
    LET cat1 == IF st.cat = NoCatalog
                THEN FigureListColors(st.cms, st.col, st.nosave, st.empty)
                ELSE st.cat
        lg   == Append(st.log, SwapEvent(new, base))
    IN  IF Failed(cat1) /\ st.cat = NoCatalog
        THEN [st EXCEPT !.cat = cat1, !.raised = "ValueError"]
        ELSE IF base \notin Keys(cat1)
        THEN [st EXCEPT !.cat = cat1, !.log = lg, !.raised = "KeyError"]
        ELSE LET r == SwapLoop(EntriesOf(cat1, base), 1, new, st.col, st.cms,
                               {}, lg)
             IN  [st EXCEPT !.cat = cat1, !.col = r.col, !.cms = r.cms,
                            !.log = r.log]

\* ColorChooserWidget.updateColors
UpdateColors(st) ==
    LET cat1 == FigureListColors(st.cms, st.col, st.nosave, st.empty)
        n    == Min(Len(cat1), MaxButtons)
    IN  IF Failed(cat1)
        THEN [st EXCEPT !.cat = cat1, !.raised = "ValueError"]
        ELSE [st EXCEPT
                 !.cat = cat1,
                 !.buttons = [k \in 1..n |->
                                 [color |-> cat1[k].key, base |-> cat1[k].key]],
                 !.text = [k \in 1..Min(Len(cat1), MaxTextColors) |-> cat1[k].key],
                 !.log = Append(st.log, CEvent("updateColors"))]

\* ColorChooserWidget.color_selected
ColorSelected(st, new, base) ==
    IF base = None THEN st
    ELSE LET s1 == FigureSwapColor(st, new, base)
         IN  IF s1.raised # "none" THEN s1
             ELSE [s1 EXCEPT !.log = Append(s1.log, CEvent("draw"))]

\* the swap_counter part of colorChanged
CountSwap(s1) ==
    IF s1.counter + 1 = FullSwap
    THEN UpdateColors([s1 EXCEPT !.counter = 0])
    ELSE [s1 EXCEPT !.counter = s1.counter + 1]

\* a slot called by a signal's emit: an exception ends the slot only; it is
\* handed to sys.excepthook (my_excepthook) and the emitter goes on
Slot(st, after) ==
    [after EXCEPT !.raised = IF after.raised # "none" THEN after.raised
                             ELSE st.raised]

\* ColorChooserWidget.colorChanged(c, color_base), connected to color_changed
ColorChanged(st, c, base) ==
    LET s1 == ColorSelected([st EXCEPT !.raised = "none"], c, base)
    IN  Slot(st, IF s1.raised # "none" THEN s1 ELSE CountSwap(s1))

\* how many times updateColors has run in the handler so far
Rebuilds(st) ==
    Cardinality({k \in 1..Len(st.log) : st.log[k].ev = "updateColors"})

\* QDragableColor.setColor(value) on the button that was the k-th of the
\* list when the handler began; it emits color_changed
SetColor(st, k, base, value) ==
    LET s0 == [st EXCEPT !.widgets[k].color = value]
        s1 == IF Rebuilds(st) = 0
              THEN [s0 EXCEPT !.buttons[k].color = value]
              ELSE s0
    IN  ColorChanged(s1, value, base)

\* ColorChooserWidget.resetSwapcounter
ResetSwapcounter(st) ==
    Slot(st, UpdateColors([st EXCEPT !.counter = 0, !.raised = "none"]))

\* QDragableColor.dropEvent on button j, the dragged button being i
DropEventNoCopy(st, i, j) ==
    LET s1 == SetColor(st, i, st.buttons[i].base, st.buttons[j].color)
    IN  SetColor(s1, j, st.buttons[j].base, s1.widgets[i].color)

DropEvent(st, i, j) ==
    LET color == st.buttons[i].color
        mine  == st.buttons[j].color
        s1    == SetColor(st, i, st.buttons[i].base, mine)
    IN  SetColor(s1, j, st.buttons[j].base, color)

\* the loop of colors_changed over the lines of the text widget
RECURSIVE ColorsChangedLoop(_, _, _)
ColorsChangedLoop(st, lines, n) ==
    IF n > Len(lines) \/ st.raised = "IndexError" THEN st
    ELSE IF lines[n] = "junk" THEN ColorsChangedLoop(st, lines, n + 1)
    ELSE LET s0 == IF Len(st.buttons) <= n - 1
                   THEN [st EXCEPT !.buttons =
                            Append(@, [color |-> lines[n], base |-> None])]
                   ELSE st
         IN  IF n > Len(s0.buttons)
             THEN [s0 EXCEPT !.raised = "IndexError"]
             ELSE LET b  == s0.buttons[n]
                      s1 == [s0 EXCEPT !.buttons[n].color = lines[n]]
                  IN  ColorsChangedLoop(ColorChanged(s1, lines[n], b.base),
                                        lines, n + 1)

\* the figure of the linked-widget specifications: its colours never change
IdleCol == [sl \in Slots |-> One(Plain(ColA, 1))]

ColorsIdle ==
    /\ artist_colors = IdleCol
    /\ cmap_colors = [c \in ListCmaps |-> <<ColA, ColB>>]
    /\ no_save = {"helper"}
    /\ empty_text = {}
    /\ color_artists = NoCatalog
    /\ color_buttons_list = <<>>
    /\ swap_counter = 0
    /\ colors_text = <<>>
    /\ clog = <<>>
    /\ craised = "none"
    /\ clast = [op |-> "none", src |-> "", dst |-> "", was |-> 0]
    /\ csteps = 0

(***************************************************************************)
(* Handlers                                                                *)
(***************************************************************************)

NoOp == [op |-> "none", edit |-> 0]

NoRun == [edit |-> 0, stage |-> "none"]

\* self.condition(element)
Condition(e) == cond = "none" \/ Kind(e) = cond

InitWith(directs, classes, conds, sels) ==
    /\ hasGet \in [Kinds -> BOOLEAN]
    /\ hasSet \in [Kinds -> BOOLEAN]
    /\ direct \in directs
    /\ wclass \in classes
    /\ cond \in conds
    /\ targets \in sels
    /\ prop = InitProp
    /\ element = None
    /\ wvalue = 0
    /\ shown = TRUE
    /\ enabled = TRUE
    /\ edits = <<>>
    /\ log = <<>>
    /\ raised = "none"
    /\ last = NoOp
    /\ run = NoRun
    /\ ColorsIdle

\* Linkable.setTarget(element), connected to the signal given to link
SetTarget(e) ==
    /\ Len(edits) < MaxEdits
    /\ element' = e
    /\ last' = [op |-> "setTarget", edit |-> 0]
    /\ run' = NoRun
    /\ IF ~hasGet[Kind(e)]
       THEN /\ shown' = FALSE
            /\ raised' = "none"
            /\ log' = <<>>
            /\ UNCHANGED <<prop, wvalue, enabled, edits>>
       ELSE LET ws == WidgetSet(wclass, prop[e])
            IN  IF ws.raised # "none"
                THEN /\ raised' = ws.raised
                     /\ log' = <<>>
                     /\ UNCHANGED <<prop, wvalue, shown, enabled, edits>>
                ELSE /\ wvalue' = ws.value
                     /\ IF SetEmits(wclass, wvalue, ws.value)
                        THEN LET u == UpdateLink(prop, e, targets, ws.value)
                             IN  /\ prop' = u.prop
                                 /\ edits' = IF u.added THEN Append(edits, u.edit)
                                             ELSE edits
                                 /\ log' = u.log
                                 /\ raised' = "none"
                                 /\ shown' = TRUE
                                 /\ enabled' = Condition(e)
                        ELSE /\ shown' = TRUE
                             /\ enabled' = Condition(e)
                             /\ raised' = "none"
                             /\ log' = <<>>
                             /\ UNCHANGED <<prop, edits>>
    /\ UNCHANGED <<hasGet, hasSet, direct, wclass, cond, targets>>
    /\ UNCHANGED colorVars

\* the user enters v and the widget emits editingFinished: updateLink runs
EditingFinished(v) ==
    /\ Len(edits) < MaxEdits
    /\ v \in UserValues(wclass)
    /\ LET u == UpdateLink(prop, element, targets, v)
       IN  /\ wvalue' = v
           /\ prop' = u.prop
           /\ edits' = IF u.added THEN Append(edits, u.edit) ELSE edits
           /\ log' = u.log
           /\ raised' = u.raised
           /\ last' = [op |-> "updateLink",
                       edit |-> IF u.added THEN Len(edits) + 1 ELSE 0]
           /\ run' = IF u.added THEN [edit |-> Len(edits) + 1, stage |-> "edit"]
                     ELSE NoRun
    /\ UNCHANGED <<hasGet, hasSet, direct, wclass, cond, targets, element,
                   shown, enabled>>
    /\ UNCHANGED colorVars

\* the change tracker calls the undo closure of the i-th recorded edit
Undo(i) ==
    /\ i \in 1..Len(edits)
    /\ LET r == Restore(edits[i].undo, 1, prop, <<>>, wclass, wvalue)
       IN  /\ prop' = r.prop
           /\ log' = r.log
           /\ raised' = r.raised
    /\ last' = [op |-> "undo", edit |-> i]
    /\ run' = IF run = [edit |-> i, stage |-> "edit"]
              THEN [edit |-> i, stage |-> "undo"] ELSE NoRun
    /\ UNCHANGED <<hasGet, hasSet, direct, wclass, cond, targets, element,
                   wvalue, shown, enabled, edits>>
    /\ UNCHANGED colorVars

\* the change tracker calls the redo closure of the i-th recorded edit
Redo(i) ==
    /\ i \in 1..Len(edits)
    /\ LET r == Restore(edits[i].redo, 1, prop, <<>>, wclass, wvalue)
       IN  /\ prop' = r.prop
           /\ log' = r.log
           /\ raised' = r.raised
    /\ last' = [op |-> "redo", edit |-> i]
    /\ run' = IF run = [edit |-> i, stage |-> "undo"]
              THEN [edit |-> i, stage |-> "redo"] ELSE NoRun
    /\ UNCHANGED <<hasGet, hasSet, direct, wclass, cond, targets, element,
                   wvalue, shown, enabled, edits>>
    /\ UNCHANGED colorVars

InitLink == InitWith(BOOLEAN, {"NumberWidget"}, {"none"}, Selections)

NextLink ==
    \/ \E e \in Elements : SetTarget(e)
    \/ \E v \in Values : EditingFinished(v)
    \/ \E i \in 1..MaxEdits : Undo(i)
    \/ \E i \in 1..MaxEdits : Redo(i)

SpecLink == InitLink /\ [][NextLink]_vars

(***************************************************************************)
(* The colour chooser's handlers                                           *)
(***************************************************************************)

\* longest text a user types into the colour list, in lines
MaxLines == 1

\* number of chooser handlers in a run
MaxOps == 3

\* the colours offered by the colour picker
PickColors == {ColA, ColC}

\* what a line of the colour list can hold
TextTokens == {ColB, "viridis", "junk"}

ChooserState ==
    [col |-> artist_colors, cms |-> cmap_colors, nosave |-> no_save,
     empty |-> empty_text, cat |-> color_artists,
     buttons |-> color_buttons_list, widgets |-> color_buttons_list,
     counter |-> swap_counter,
     text |-> colors_text, log |-> <<>>, raised |-> "none"]

Commit(st) ==
    /\ csteps < MaxOps
    /\ csteps' = csteps + 1
    /\ artist_colors' = st.col
    /\ cmap_colors' = st.cms
    /\ color_artists' = st.cat
    /\ color_buttons_list' = st.buttons
    /\ swap_counter' = st.counter
    /\ colors_text' = st.text
    /\ clog' = st.log
    /\ craised' = st.raised
    /\ UNCHANGED <<no_save, empty_text>>
    /\ UNCHANGED linkVars

Did(op, src, dst) == [op |-> op, src |-> src, dst |-> dst, was |-> swap_counter]

\* PlotWindow.showEvent, or a click on the update button
ShowEvent ==
    /\ Commit(UpdateColors(ChooserState))
    /\ clast' = Did("updateColors", "", "")

\* QDragableColor.dragEnterEvent on button j, the dragged button being i
DragAccepted(i, j) == i # j

\* button i is dragged and dropped onto button j; the record keeps the
\* colours the two widgets hold when dropEvent returns
Drop(i, j) ==
    /\ i \in 1..Len(color_buttons_list)
    /\ j \in 1..Len(color_buttons_list)
    /\ DragAccepted(i, j)
    /\ Commit(DropEvent(ChooserState, i, j))
    /\ clast' = [op |-> "drop", src |-> color_buttons_list[i].color,
                 dst |-> color_buttons_list[j].color, was |-> swap_counter,
                 from |-> i, to |-> j,
                 srcNow |-> DropEvent(ChooserState, i, j).widgets[i].color,
                 dstNow |-> DropEvent(ChooserState, i, j).widgets[j].color]

\* openDialog on a button showing a plain colour: the user picks colour c
Pick(i, c) ==
    /\ i \in 1..Len(color_buttons_list)
    /\ color_buttons_list[i].color \notin Maps
    /\ Commit(ResetSwapcounter(
           SetColor(ChooserState, i, color_buttons_list[i].base, c)))
    /\ clast' = Did("pick", color_buttons_list[i].color, c)

\* openDialog on a button showing a colormap: the user chooses colormap m
ChooseMap(i, m) ==
    /\ i \in 1..Len(color_buttons_list)
    /\ color_buttons_list[i].color \in Maps
    /\ Commit(SetColor(ChooserState, i, color_buttons_list[i].base, m))
    /\ clast' = Did("choosemap", color_buttons_list[i].color, m)

\* the user edits the colour list: colors_changed runs on the new lines
TextEdit(lines) ==
    /\ lines # colors_text
    /\ Commit(ColorsChangedLoop([ChooserState EXCEPT !.text = lines], lines, 1))
    /\ clast' = Did("text", "", "")

\* the colours a figure starts with, given the colour list of cm1
LineColors(cm) ==
    {One(Plain(ColA, 1)), One(Plain(ColB, 1)), One(Plain(Black, 1)),
     One(Plain(ColA, 0)), One(Invalid), Unset,
     One(FromCmap("cm1", 1, cm[1])), One(FromCmap("viridis", 0, MapHex("viridis", 0)))}

ScatterColors(cm) ==
    {Many(<<Plain(ColA, 1), Plain(ColB, 1)>>), Many(<<Plain(ColA, 1), Plain(ColA, 1)>>),
     One(Plain(ColB, 1)), Many(<<>>), One(FromCmap("cm1", 2, cm[2]))}

Cm1Lists == {<<ColA, ColB>>, <<ColC, Black>>}

InitColor ==
    /\ cmap_colors \in [ListCmaps -> Cm1Lists]
    /\ \E lc \in LineColors(cmap_colors["cm1"]),
          sc \in ScatterColors(cmap_colors["cm1"]),
          tc \in {ColB}, ac \in {White} :
          artist_colors = [sl \in Slots |->
              CASE sl = <<"line", "color">>        -> lc
                [] sl = <<"scatter", "facecolor">> -> sc
                [] sl = <<"title", "color">>       -> One(Plain(tc, 1))
                [] sl = <<"ax", "facecolor">>      -> One(Plain(ac, 1))
                [] sl = <<"helper", "facecolor">>  -> One(Plain(ColB, 1))
                [] OTHER                           -> One(Plain(ColA, 1))]
    /\ \E hidden \in {<<{"helper"}, {}>>, <<{}, {"title"}>>} :
          no_save = hidden[1] /\ empty_text = hidden[2]
    /\ color_artists = NoCatalog
    /\ color_buttons_list = <<>>
    /\ swap_counter = 0
    /\ colors_text = <<>>
    /\ clog = <<>>
    /\ craised = "none"
    /\ clast = [op |-> "none", src |-> "", dst |-> "", was |-> 0]
    /\ csteps = 0
    /\ hasGet = [k \in Kinds |-> TRUE]
    /\ hasSet = [k \in Kinds |-> TRUE]
    /\ direct = FALSE
    /\ wclass = "NumberWidget"
    /\ cond = "none"
    /\ targets = <<>>
    /\ prop = InitProp
    /\ element = None
    /\ wvalue = 0
    /\ shown = TRUE
    /\ enabled = TRUE
    /\ edits = <<>>
    /\ log = <<>>
    /\ raised = "none"
    /\ last = NoOp
    /\ run = NoRun

RECURSIVE LinesUpTo(_)
LinesUpTo(n) ==
    IF n = 0 THEN {<<>>}
    ELSE LET shorter == LinesUpTo(n - 1)
         IN  shorter \cup {Append(l, t) : l \in {x \in shorter : Len(x) = n - 1},
                                          t \in TextTokens}

NextColor ==
    \/ ShowEvent
    \/ \E i, j \in 1..MaxButtons : Drop(i, j)
    \/ \E i \in 1..MaxButtons, c \in PickColors : Pick(i, c)
    \/ \E i \in 1..MaxButtons, m \in Maps : ChooseMap(i, m)
    \/ \E lines \in LinesUpTo(MaxLines) : TextEdit(lines)

SpecColor == InitColor /\ [][NextColor]_vars

\* every widget class and condition, with at most one selected target
InitWidgets ==
    InitWith(BOOLEAN, WidgetClasses, {"none", "Text"},
             {s \in Selections : Len(s) <= 1})

SpecWidgets == InitWidgets /\ [][NextLink]_vars

(***************************************************************************)
(* Properties of the linked widgets                                        *)
(***************************************************************************)

\* the step is an editingFinished of a non-direct link with a target set,
\* in which both getLinkedPropertyAll and the property setter complete
SetterCompletes ==
    /\ last'.op = "updateLink"
    /\ ~direct
    /\ element # None
    /\ GetLinkedPropertyAll(prop, element, targets).raised = "none"
    /\ SetLinkedProperty(prop, element, targets, wvalue').raised = "none"

\* C1: whenever editingFinished fires on a non-direct link with a target set
\* and the property setter completes, updateLink adds exactly one edit
\* [undo, redo, "Change property"] to the change tracker, then redraws the
\* canvas, then emits figure_selection_property_changed, each exactly once.
C1_OneEditThenDrawThenEmit ==
    [][SetterCompletes =>
        /\ raised' = "none"
        /\ Len(edits') = Len(edits) + 1
        /\ SubSeq(edits', 1, Len(edits)) = edits
        /\ LET e == edits'[Len(edits')]
           IN  /\ e.name = "Change property"
               /\ e.undo[1] = [elem |-> element, value |-> prop[element]]
               /\ e.redo[1] = [elem |-> element, value |-> wvalue']
        /\ log' = <<Event("addEdit"), Event("draw"), Event("emit")>>]_vars

C1_Witness ==
    /\ last.op = "updateLink"
    /\ ~direct
    /\ Len(edits) = 1
    /\ Len(edits[1].redo) = 3
    /\ Len(log) = 3

\* C2: after updateLink on a non-direct link, the recorded undo callback
\* leaves the linked element and every other selected target with the value
\* it had immediately before updateLink.
C2_UndoRestoresEveryTarget ==
    run.stage = "undo" =>
        LET e == edits[run.edit]
        IN  \A x \in {e.elem} \cup Range(e.sel) : prop[x] = e.pre[x]

\* C3: after updateLink followed by its undo callback, the redo callback
\* leaves every element captured after the edit with the value it had
\* immediately after updateLink.
C3_RedoRestoresCaptured ==
    run.stage = "redo" =>
        LET e == edits[run.edit]
        IN  \A k \in 1..Len(e.redo) :
                /\ e.redo[k].value = e.post[e.redo[k].elem]
                /\ prop[e.redo[k].elem] = e.post[e.redo[k].elem]

C3_Witness ==
    /\ run.stage = "redo"
    /\ raised = "none"
    /\ Len(edits[run.edit].redo) = 3
    /\ \A k \in 1..3 :
          LET c == edits[run.edit].redo[k]
          IN  edits[run.edit].pre[c.elem] # c.value

\* C4: when updateLink applies an edit, it records a serializable change for
\* every element it modified: addNewTextChange for a Text, addChange with
\* the serialized setter call for any other element.
C4_ChangeRecordedAtEdit ==
    (last.op = "updateLink" /\ last.edit > 0) =>
        LET e == edits[last.edit]
        IN  \A x \in Elements :
                e.pre[x] # e.post[x] =>
                    \E k \in 1..Len(log) : log[k] = SaveChange(x, wclass, wvalue)

\* the targets of the selection that are not the linked element and have the
\* setter, in selection order
RECURSIVE SettableTargets(_, _, _)
SettableTargets(el, tg, i) ==
    IF i > Len(tg) THEN <<>>
    ELSE IF tg[i] # el /\ hasSet[Kind(tg[i])]
    THEN <<tg[i]>> \o SettableTargets(el, tg, i + 1)
    ELSE SettableTargets(el, tg, i + 1)

\* setLinkedProperty(v) sets exactly the linked element and the settable
\* targets, and returns them in that order
SetsElementAndTargets ==
    LET s    == SetLinkedProperty(prop, element, targets, wvalue')
        want == <<element>> \o SettableTargets(element, targets, 1)
    IN  /\ s.raised = "none"
        /\ s.elements = want
        /\ \A x \in Elements :
              prop'[x] = IF x \in Range(want) THEN wvalue' ELSE prop[x]

\* C5 as stated: in a non-direct link, setLinkedProperty(v) calls the setter
\* on the linked element and on every other selected target that has it,
\* leaves the others unchanged, and returns the linked element followed by
\* the targets that were set, in selection order.
C5_SetsEveryTarget ==
    [][(/\ last'.op = "updateLink" /\ ~direct /\ element # None
        /\ GetLinkedPropertyAll(prop, element, targets).raised = "none"
        /\ hasSet[Kind(element)])
        => SetsElementAndTargets]_vars

\* C5 amended: the same, when the label_object search finds no axis label
\* (the linked element is not the x- or y-axis label of a selected Axes).
C5_SetsEveryTargetUnlessLabel ==
    [][(/\ last'.op = "updateLink" /\ ~direct /\ element # None
        /\ GetLinkedPropertyAll(prop, element, targets).raised = "none"
        /\ hasSet[Kind(element)]
        /\ LabelObject(element, targets) = "none")
        => SetsElementAndTargets]_vars

C5_Witness ==
    /\ last.op = "updateLink" /\ ~direct /\ last.edit > 0
    /\ LET e == edits[last.edit]
       IN  /\ Len(e.sel) = 2
           /\ LabelObject(e.elem, e.sel) = "none"
           /\ e.elem \notin Range(e.sel)
           /\ hasSet[Kind(e.sel[2])] /\ ~hasSet[Kind(e.sel[1])]
           /\ e.post[e.sel[2]] # e.pre[e.sel[2]]

\* C6: on a direct link, editingFinished on a widget with a target set
\* assigns the widget's value to the attribute of the target and records one
\* undoable edit, and updateLink completes without raising.
C6_DirectLinkUpdates ==
    (direct /\ last.op = "updateLink" /\ element # None /\ hasGet[Kind(element)]) =>
        /\ raised = "none"
        /\ prop[element] = wvalue
        /\ last.edit > 0

\* C7: setTarget adds no edit to the change tracker, redraws nothing, emits
\* nothing and leaves every property unchanged, whatever the widget class.
C7_SetTargetRecordsNothing ==
    [][last'.op = "setTarget" =>
        /\ edits' = edits
        /\ prop' = prop
        /\ log' = <<>>]_vars

C7_Witness ==
    /\ last.op = "setTarget"
    /\ wclass = "DimensionsWidget"
    /\ shown
    /\ element # None
    /\ wvalue = prop[element]
    /\ wvalue # 0

(***************************************************************************)
(* Properties of the colour catalogue and the colour chooser               *)
(***************************************************************************)

\* the last chooser handler ended by rebuilding the catalogue and buttons
JustBuilt ==
    /\ craised = "none"
    /\ Len(clog) > 0
    /\ clog[Len(clog)].ev = "updateColors"

\* the catalogue lists the colour attribute sl of an artist
Catalogued(sl) ==
    \E k \in 1..Len(color_artists) :
        \E n \in 1..Len(color_artists[k].entries) :
            /\ color_artists[k].entries[n].artist = sl[1]
            /\ color_artists[k].entries[n].attr = sl[2]

\* the colours an attribute shows
HexSet(cv) == {cv.colors[j].hex : j \in 1..Len(cv.colors)}

Exchange(h, a, b) == IF h = a THEN b ELSE IF h = b THEN a ELSE h

\* C8: when the button of plain colour A is dropped onto the button of
\* plain colour B, in a catalogue just built and with swap_counter = 0,
\* every catalogued attribute then shows B where it showed A and A where it
\* showed B, and the catalogue and buttons are rebuilt once, after both
\* changes.
C8_DropExchangesColors ==
    [][(/\ clast'.op = "drop" /\ JustBuilt /\ swap_counter = 0
        /\ clast'.src \notin Maps /\ clast'.dst \notin Maps)
        =>
        /\ \A sl \in Slots :
              Catalogued(sl) =>
                  HexSet(artist_colors'[sl]) =
                      {Exchange(h, clast'.src, clast'.dst) :
                          h \in HexSet(artist_colors[sl])}
        /\ Cardinality({k \in 1..Len(clog') : clog'[k].ev = "updateColors"}) = 1
        /\ clog'[Len(clog')].ev = "updateColors"]_vars

\* the step is a colour-picker choice on a button whose base colour is a
\* plain colour of the catalogue: one figureSwapColor(new, base)
PickOnPlainBase(i) ==
    /\ clast'.op = "pick"
    /\ i \in 1..Len(color_buttons_list)
    /\ color_buttons_list[i].color = clast'.src
    /\ color_buttons_list[i].base \in Keys(color_artists)
    /\ color_buttons_list[i].base \notin Maps
    /\ clog'[1] = SwapEvent(clast'.dst, color_buttons_list[i].base)

\* the changes recorded by the handler, in order
RECURSIVE ChangesIn(_, _)
ChangesIn(lg, k) ==
    IF k > Len(lg) THEN <<>>
    ELSE IF lg[k].ev = "addChange"
    THEN <<lg[k]>> \o ChangesIn(lg, k + 1)
    ELSE ChangesIn(lg, k + 1)

\* figureSwapColor set every attribute listed under base to new, recorded
\* one change .set_<attribute>("<new>") per entry, and left the rest alone
SwapSetsListed(base, new) ==
    LET es == EntriesOf(color_artists, base)
        listed == {<<es[n].artist, es[n].attr>> : n \in 1..Len(es)}
        chg == ChangesIn(clog', 1)
    IN  /\ \A sl \in Slots :
              artist_colors'[sl] = IF sl \in listed THEN One(Plain(new, 1))
                                   ELSE artist_colors[sl]
        /\ Len(chg) = Len(es)
        /\ \A n \in 1..Len(es) :
              /\ chg[n].artist = es[n].artist
              /\ chg[n].text = PlainChange(es[n].attr, new)

\* C9 as stated: figureSwapColor(figure, new_color, color_base), color_base
\* a catalogued plain colour and new_color no colormap name, sets the
\* attribute of every entry listed under color_base to new_color, records
\* exactly one change .set_<attribute>("<new_color>") per entry and leaves
\* the attributes not listed under color_base unchanged.
C9_SwapSetsEveryEntry ==
    [][\A i \in 1..MaxButtons :
          PickOnPlainBase(i) =>
              SwapSetsListed(color_buttons_list[i].base, clast'.dst)]_vars

\* C9 amended: the same, when no entry listed under color_base belongs to a
\* colormap.
C9_SwapSetsEveryPlainEntry ==
    [][\A i \in 1..MaxButtons :
          (/\ PickOnPlainBase(i)
           /\ LET es == EntriesOf(color_artists, color_buttons_list[i].base)
              IN  \A n \in 1..Len(es) : es[n].cmap = None)
          => SwapSetsListed(color_buttons_list[i].base, clast'.dst)]_vars

C9_Witness ==
    /\ clast.op = "pick"
    /\ craised = "none"
    /\ Len(ChangesIn(clog, 1)) = 2
    /\ \A k \in 1..2 : ChangesIn(clog, 1)[k].text = PlainChange("facecolor", clast.dst)
    /\ artist_colors[<<"scatter", "facecolor">>] = One(Plain(clast.dst, 1))
    /\ artist_colors[<<"line", "color">>] # One(Plain(clast.dst, 1))

\* how many plain, not fully transparent colours of hex h the attribute has
Opaque(cv, h) ==
    Cardinality({j \in 1..Len(cv.colors) :
                    /\ cv.colors[j].kind = "plain"
                    /\ cv.colors[j].hex = h
                    /\ cv.colors[j].alpha # 0})

\* C10: after figureListColors, black and white are never keys of
\* figure.color_artists, and no entry is listed for a fully transparent
\* plain colour.
C10_NoBlackWhiteTransparent ==
    JustBuilt =>
        /\ Black \notin Keys(color_artists)
        /\ White \notin Keys(color_artists)
        /\ \A k \in 1..Len(color_artists) : \A sl \in Slots :
              Cardinality({n \in 1..Len(color_artists[k].entries) :
                              LET e == color_artists[k].entries[n]
                              IN  /\ e.artist = sl[1] /\ e.attr = sl[2]
                                  /\ e.cmap = None})
                  <= Opaque(artist_colors[sl], color_artists[k].key)

\* the artists above a in the tree of get_children
RECURSIVE Ancestors(_)
Ancestors(a) ==
    LET ps == {q \in Artists : a \in Range(Children(q))}
    IN  ps \cup UNION {Ancestors(q) : q \in ps}

\* an artist marked _no_save, or a descendant of one
Hidden(a) == a \in no_save \/ Ancestors(a) \cap no_save # {}

\* a Text artist whose text is empty
EmptyText(a) == IsText(a) /\ a \in empty_text

\* an artist below a Text or a tick
BelowTextOrTick(a) == \E q \in Ancestors(a) : IsText(q) \/ IsTick(q)

\* the catalogue lists the attribute sl under key
ListedUnder(key, sl) ==
    \E k \in 1..Len(color_artists) :
        /\ color_artists[k].key = key
        /\ \E n \in 1..Len(color_artists[k].entries) :
              /\ color_artists[k].entries[n].artist = sl[1]
              /\ color_artists[k].entries[n].attr = sl[2]

\* no entry refers to a _no_save artist, a descendant of one or an empty Text
NoExcludedArtist ==
    \A k \in 1..Len(color_artists) :
        \A n \in 1..Len(color_artists[k].entries) :
            LET a == color_artists[k].entries[n].artist
            IN  ~Hidden(a) /\ ~EmptyText(a)

\* a colour that converts and is neither black, white nor fully transparent
Listable(c) ==
    /\ c.kind # "invalid"
    /\ c.hex \notin {Black, White}
    /\ c.alpha # 0

\* C11 as stated: after figureListColors no entry refers to a _no_save
\* artist, a descendant of one or an empty Text, and every other artist
\* reachable through get_children with a set, convertible, non-excluded
\* colour attribute is listed under the hex value of that colour.
C11_ListsEveryOtherArtist ==
    JustBuilt =>
        /\ NoExcludedArtist
        /\ \A sl \in Slots :
              (~Hidden(sl[1]) /\ ~EmptyText(sl[1])) =>
                  \A j \in 1..Len(artist_colors[sl].colors) :
                      LET c == artist_colors[sl].colors[j]
                      IN  Listable(c) => ListedUnder(c.hex, sl)

\* C11 amended: the same for the artists that are not below a Text or a
\* tick and for their plain colours (colours that belong to no colormap).
C11_ListsEveryWalkedPlainColor ==
    JustBuilt =>
        /\ NoExcludedArtist
        /\ \A sl \in Slots :
              (~Hidden(sl[1]) /\ ~EmptyText(sl[1]) /\ ~BelowTextOrTick(sl[1])) =>
                  \A j \in 1..Len(artist_colors[sl].colors) :
                      LET c == artist_colors[sl].colors[j]
                      IN  (Listable(c) /\ c.kind = "plain") => ListedUnder(c.hex, sl)

C11_Witness ==
    /\ JustBuilt
    /\ no_save = {"helper"}
    /\ ~Catalogued(<<"helper", "facecolor">>)
    /\ ~Catalogued(<<"hline", "color">>)
    /\ ListedUnder(ColA, <<"scatter", "facecolor">>)
    /\ ListedUnder(ColB, <<"scatter", "facecolor">>)
    /\ ListedUnder(ColB, <<"title", "color">>)

\* C12: after a QDragableColor is dropped onto a different QDragableColor
\* the target holds the colour the source held before the drop and the
\* source the colour the target held; a drag is never accepted when the
\* source is the widget itself.
C12_DropExchangesWidgetColors ==
    [][clast'.op = "drop" =>
        /\ clast'.from # clast'.to
        /\ clast'.dstNow = color_buttons_list[clast'.from].color
        /\ clast'.srcNow = color_buttons_list[clast'.to].color]_vars

C12_Witness ==
    /\ clast.op = "drop"
    /\ clast.src # clast.dst
    /\ clast.srcNow = clast.dst
    /\ clast.dstNow = clast.src
    /\ clast.was = 1
    /\ craised # "none"

\* the figureSwapColor calls among the first k calls of the handler
SwapsBefore(lg, k) ==
    Cardinality({m \in 1..k : lg[m].ev = "figureSwapColor"})

\* C13: in a drag-and-drop exchange between two buttons of the catalogue,
\* updateColors runs only after both colours have been changed, never
\* between the first and the second change, whatever color-picker choices,
\* colormap choices, text edits and exchanges came before.
C13_UpdateOnlyAfterFullSwap ==
    [][(/\ clast'.op = "drop"
        /\ color_buttons_list[clast'.from].base # None
        /\ color_buttons_list[clast'.to].base # None)
        =>
        \A k \in 1..Len(clog') :
            clog'[k].ev = "updateColors" => SwapsBefore(clog', k) = 2]_vars

\* C14: when the undo or redo callback of a recorded edit has run, the
\* change it recorded for each element that is no Text serializes the value
\* the callback restored to that element, not the value the widget shows.
C14_SerializesRestoredValue ==
    (last.op \in {"undo", "redo"} /\ raised = "none") =>
        \A k \in 1..Len(log) :
            log[k].ev = "addChange" =>
                log[k].text =
                    SerializeLinkedProperty(
                        GetSerialized(wclass, prop[log[k].elem]))

\* C15: if applying the widget value raises AttributeError (the linked
\* element has no setter), updateLink returns without adding an edit,
\* without redrawing, without emitting, and no property has been changed.
C15_FailedSetChangesNothing ==
    [][(/\ last'.op = "updateLink" /\ ~direct /\ element # None
        /\ GetLinkedPropertyAll(prop, element, targets).raised = "none"
        /\ SetLinkedProperty(prop, element, targets, wvalue').raised
               = "AttributeError")
        =>
        /\ raised' = "none"
        /\ edits' = edits
        /\ log' = <<>>
        /\ prop' = prop]_vars

C15_Witness ==
    /\ last.op = "updateLink" /\ ~direct /\ element # None
    /\ hasGet[Kind(element)] /\ ~hasSet[Kind(element)]
    /\ raised = "none"
    /\ Len(targets) = 2
    /\ hasSet[Kind(targets[1])] /\ hasGet[Kind(targets[1])]
    /\ element \notin Range(targets)
    /\ wvalue # prop[targets[1]]
    /\ edits = <<>>
    /\ log = <<>>

\* C16: setTarget(element) stores the element; if reading the linked
\* property raises AttributeError the widget is hidden, otherwise it is
\* shown, displays the element's value (as the widget's set converts it) and
\* is enabled exactly when condition(element) is true.
C16_SetTargetShowsValue ==
    [][last'.op = "setTarget" =>
        /\ element' # None
        /\ raised' = "none"
        /\ IF ~hasGet[Kind(element')]
           THEN ~shown'
           ELSE /\ shown'
                /\ wvalue' = WidgetSet(wclass, prop[element']).value
                /\ enabled' = Condition(element')]_vars

\* the axis whose label the linked element is ("x", "y" or "none") among
\* the selected Axes
LabelAxis(el, tg) ==
    IF \E i \in 1..Len(tg) : Kind(tg[i]) = "Axes" /\ XLabel(tg[i]) = el
    THEN "x"
    ELSE IF \E i \in 1..Len(tg) : Kind(tg[i]) = "Axes" /\ YLabel(tg[i]) = el
    THEN "y"
    ELSE "none"

\* C17: when the linked element is the x-axis (y-axis) label of one of the
\* selected Axes and the first target is an Axes, setLinkedProperty and
\* getLinkedPropertyAll act on the x-axis (y-axis) label of every selected
\* target instead of on the targets themselves.
C17_ActsOnLabelsOfTargets ==
    [][(/\ last'.op = "updateLink" /\ ~direct /\ element # None
        /\ Kind(element) = "Text" /\ hasGet["Text"] /\ hasSet["Text"]
        /\ Len(targets) > 0 /\ Kind(targets[1]) = "Axes"
        /\ LabelAxis(element, targets) # "none")
        =>
        LET lab == LabelAxis(element, targets)
        IN  /\ raised' = "none"
            /\ Len(edits') = Len(edits) + 1
            /\ \A i \in 1..Len(targets) :
                  /\ prop'[LabelOf(lab, targets[i])] = wvalue'
                  /\ prop'[targets[i]] = prop[targets[i]]
                  /\ \E k \in 1..Len(edits'[Len(edits')].undo) :
                        edits'[Len(edits')].undo[k] =
                            [elem |-> LabelOf(lab, targets[i]),
                             value |-> prop[LabelOf(lab, targets[i])]]]_vars

====
